---- MODULE Spec2Model ----
(***************************************************************************)
(* Transaction ledger and asynchronous generation pipeline of              *)
(* KCSythEducProject: create_user, create_transaction, process_transaction *)
(* (settle), the exchange rate, the generation request (create_generation  *)
(* and create_prediction), and the worker's process_message.               *)
(*                                                                         *)
(* The relational store is PostgreSQL at its default isolation level       *)
(* (database.py:7 passes no isolation_level): every statement reads the    *)
(* latest committed rows and every commit writes the values the session    *)
(* computed in Python.  The variables below are the committed rows; what a *)
(* session has loaded is kept in the record of the thread that runs it.    *)
(*                                                                         *)
(* Numbers: amounts and balances are whole units, the exchange rate is     *)
(* kept in tenths (12 is the rate 1.2), and the amounts are chosen so that *)
(* amount * rate is a whole number; floating point rounding is not         *)
(* modelled.                                                               *)
(***************************************************************************)
EXTENDS Integers, Sequences, FiniteSets, TLC

\* ---------------------------------------------------------------- bounds
MaxTx == 3          \* rows of the transactions table
MaxGen == 2         \* rows of the generation_history table
MaxConn == 3        \* broker connections opened by the publishers

\* ------------------------------------------------------ program constants
INITIAL_BALANCE == 100   \* Balance.amount default, the initial grant
DEFAULT_RATE == 12       \* ExchangeService.rate default 1.2, in tenths

\* ------------------------------------------------------------ input sets
UserIds == {"u1"}
Threads == {"r1", "r2"}                  \* concurrently served API calls
\* CreateTransactionSchema: amount and transaction_type of the requests made
\* while calls run concurrently
TransactionInputs ==
    {[amount |-> 60, type |-> "CREDIT"], [amount |-> 60, type |-> "DEBIT"]}
\* CreateTransactionSchema.amount is any float: the requests made one at a time
SerialAmounts == {-60, 0, 60}
TransactionType == {"CREDIT", "DEBIT"}
Status == {"PROCESSING", "DONE", "FAILED"}
RateInputs == {-5, 12, 20}               \* UpdateExchangeRateSchema.rate, tenths
ValidRateInputs == {12, 20}              \* the rates validate_rate accepts
TokenCosts == {60}                       \* count_tokens(text)

VARIABLES
    users,             \* ids of the rows of the users table
    balance,           \* balance table: user id -> amount
    transactions,      \* transactions table: id (index) -> row
    exchange_service,  \* exchange_service table: sequence of rows
    generation_history,\* generation_history table: id (index) -> row
    thr,               \* per API thread: the call it runs and what its session loaded
    queue,             \* broker queue ml_tasks: messages not yet delivered
    worker,            \* the worker: position in process_message and its unacknowledged message
    result,            \* what the API call that ended in the last step returned or raised, and where
    applied,           \* history: per transaction, number of commits made for it that changed a stored balance
    effect,            \* history: per transaction, the change of balance its last DONE commit computed
    publisher          \* the process-wide publisher_manager, its TaskPublisher objects and the calls of publish_task

vars == <<users, balance, transactions, exchange_service, generation_history,
          thr, queue, worker, result, applied, effect, publisher>>

Terminal(st) == st \in {"DONE", "FAILED"}

IdleThread == [pc |-> "idle", op |-> "none", tx |-> 0, bal |-> 0,
               user |-> "none", cost |-> 0, gen |-> 0, ret |-> "none"]

NoResult == [ret |-> "none", exit |-> 0]

\* the worker connected and waiting in start_consuming; attempt counts the
\* failed attempts of the running connect()
IdleWorker == [pc |-> "idle", unacked |-> << >>, attempt |-> 0]

\* a thread that is not inside publish_task; ret and accepted are those of
\* its last call (accepted is history: how often the broker took the task);
\* tries and connect_ret are the attempts and the return value of the last
\* connect() the call ran ("none": it ran none)
IdleCall == [pc |-> "idle", inst |-> 0, attempt |-> 0, ch |-> 0,
             accepted |-> 0, ret |-> "none", tries |-> 0, connect_ret |-> "none"]

\* publisher_manager.publisher is None, no TaskPublisher, no connection;
\* live are the connections the broker holds open, closed those the client
\* has seen fail (is_closed, their channels closed)
NoPublisher == [manager |-> 0, inst |-> << >>, opened |-> 0, live |-> {},
                closed |-> {},
                call |-> [s \in Threads |-> IdleCall]]

TxIds == 1..MaxTx

Init ==
    /\ users = {}
    /\ balance = [u \in {} |-> 0]
    /\ transactions = << >>
    /\ exchange_service = << >>
    /\ generation_history = << >>
    /\ thr = [s \in Threads |-> IdleThread]
    /\ queue = << >>
    /\ worker = IdleWorker
    /\ result = NoResult
    /\ applied = [t \in TxIds |-> 0]
    /\ effect = [t \in TxIds |-> 0]
    /\ publisher = NoPublisher

\* ------------------------------------------------------------------------
\* exchange rate
\* ------------------------------------------------------------------------

\* init_exchange_service: insert the record with the default rate when the
\* table is empty
init_exchange_service ==
    /\ exchange_service = << >>
    /\ result' = NoResult
    /\ exchange_service' = << [rate |-> DEFAULT_RATE] >>
    /\ UNCHANGED <<users, balance, transactions, generation_history, thr,
                   queue, worker, applied, effect, publisher>>

\* a validator that accepts every rate
validate_rate_Any(rate) == TRUE

\* UpdateExchangeRateSchema.validate_rate
validate_rate(rate) == rate > 0

\* update_exchange_rate(UpdateExchangeRateSchema(rate)): a rate the validator
\* refuses raises ValueError when the schema is built (schema.py:93) and the
\* service is not entered; 404 when there is no record (line 33); else the
\* first record gets the rate and a new last_update in one commit
update_exchange_rate(rate) ==
    /\ IF ~validate_rate(rate)
       THEN /\ result' = [ret |-> "ValueError", exit |-> 93]
            /\ exchange_service' = exchange_service
       ELSE IF exchange_service = << >>
       THEN /\ result' = [ret |-> "HTTP404", exit |-> 33]
            /\ exchange_service' = exchange_service
       ELSE /\ result' = NoResult
            /\ exchange_service' = [exchange_service EXCEPT ![1].rate = rate]
    /\ UNCHANGED <<users, balance, transactions, generation_history, thr,
                   queue, worker, applied, effect, publisher>>

\* a conversion at the default rate instead of the stored one
convert_rub_to_tokens_DefaultRate(amount_in_rub, rate) ==
    (amount_in_rub * DEFAULT_RATE) \div 10

\* convert_rub_to_tokens: amount_in_rub * exchange_service.rate (rate in tenths)
convert_rub_to_tokens(amount_in_rub, rate) == (amount_in_rub * rate) \div 10

\* ------------------------------------------------------------------------
\* users and transactions
\* ------------------------------------------------------------------------

\* a lookup that finds a row for every id
UserExists_Always(u) == TRUE

\* a users row with this id (this email) exists
UserExists(u) == u \in users

\* the transaction of the initial grant (lines 47-52)
GrantTransaction(u) ==
    [user |-> u, amount |-> INITIAL_BALANCE, type |-> "CREDIT",
     status |-> "DONE"]

\* create_user; the user id stands for the email, unique in the users table.
\* A duplicate email raises IntegrityError at the flush of line 38: rollback,
\* raise (lines 81-84). Otherwise the user row, the balance row with the
\* default amount and the DONE CREDIT transaction of the grant are committed
\* together (line 56); then the UserSchema built at lines 63-79 lacks its
\* required field is_admin (schema.py:49), the validation error is caught at
\* line 85 and the call raises at line 88, the rows being committed already
create_user(u) ==
    IF u \in users
    THEN /\ result' = [ret |-> "Exception", exit |-> 84]
         /\ UNCHANGED <<users, balance, transactions, applied, effect,
                        exchange_service, generation_history, thr, queue,
                        worker, publisher>>
    ELSE /\ Len(transactions) < MaxTx
         /\ users' = users \cup {u}
         /\ balance' = (u :> INITIAL_BALANCE) @@ balance
         /\ transactions' = Append(transactions, GrantTransaction(u))
         /\ applied' = [applied EXCEPT ![Len(transactions) + 1] = 1]
         /\ effect' = [effect EXCEPT ![Len(transactions) + 1] = INITIAL_BALANCE]
         /\ result' = [ret |-> "Exception", exit |-> 88]
         /\ UNCHANGED <<exchange_service, generation_history, thr, queue,
                        worker, publisher>>

\* a row inserted as already settled
NewTransaction_Done(u, amount, type) ==
    [user |-> u, amount |-> amount, type |-> type, status |-> "DONE"]

\* the row create_transaction inserts
NewTransaction(u, amount, type) ==
    [user |-> u, amount |-> amount, type |-> type, status |-> "PROCESSING"]

\* create_transaction: for an existing user insert one row, commit and return
\* it (line 42); for an unknown user the HTTPException of line 26 is caught by
\* `except Exception` (line 48), the session is rolled back and a 500 is
\* raised (line 51). The amount is not examined.
create_transaction(u, amount, type) ==
    /\ IF UserExists(u)
       THEN /\ Len(transactions) < MaxTx
            /\ transactions' = Append(transactions,
                                      NewTransaction(u, amount, type))
            /\ result' = [ret |-> "PROCESSING", exit |-> 42]
       ELSE /\ transactions' = transactions
            /\ result' = [ret |-> "HTTP500", exit |-> 51]
    /\ UNCHANGED <<users, balance, exchange_service, generation_history, thr,
                   queue, worker, applied, effect, publisher>>

\* ------------------------------------------------------------------------
\* process_transaction (settle), one action per statement that reads or
\* commits; the query of convert_rub_to_tokens is taken together with the
\* commit that follows it (it reads a table no settlement writes)
\* ------------------------------------------------------------------------

HttpErrors == {"HTTP400", "HTTP404", "HTTP500"}

\* an API call of thread s ends: it returned `ret` (a status) or raised `ret`
\* (an HTTP error) at source line `exit`
Finish(s, ret, exit) ==
    /\ thr' = [thr EXCEPT ![s] = IdleThread]
    /\ result' = [ret |-> ret, exit |-> exit]

\* process_transaction ends in thread s: a direct caller gets the outcome;
\* inside create_prediction a raise propagates to the route (routes.py:101-103)
\* and a returned value is dropped (tts_service.py:52), the request goes on
ProcessEnds(s, op, ret, exit) ==
    IF op = "process_transaction"
    THEN Finish(s, ret, exit)
    ELSE IF ret \in HttpErrors
         THEN Finish(s, "HTTP500", 103)
         ELSE /\ thr' = [thr EXCEPT ![s] = [thr[s] EXCEPT
                            !.pc = "gen_create_record", !.bal = 0, !.ret = ret]]
              /\ result' = NoResult

\* line 66 testing for DONE only
AlreadyProcessed_OnlyDone(row) == row.status = "DONE"

\* the guard of line 66: only a PROCESSING transaction is settled
AlreadyProcessed(row) == row.status # "PROCESSING"

\* a query that answers an unknown id with a settled row
first_transaction_Default(rows, transaction_id) ==
    IF transaction_id \in DOMAIN rows THEN <<rows[transaction_id]>>
    ELSE <<[user |-> "none", amount |-> 0, type |-> "CREDIT",
            status |-> "DONE"]>>

\* line 61: the first row with the id, or none (<< >> stands for None)
first_transaction(rows, transaction_id) ==
    IF transaction_id \in DOMAIN rows THEN <<rows[transaction_id]>> ELSE << >>

\* lines 61-69 in thread s, whose record at the call is `t`: load the
\* transaction; 404 when missing; return it unchanged when it is not PROCESSING
ReadTransaction(s, t) ==
    IF first_transaction(transactions, t.tx) = << >>
    THEN ProcessEnds(s, t.op, "HTTP404", 64)
    ELSE IF AlreadyProcessed(first_transaction(transactions, t.tx)[1])
         THEN ProcessEnds(s, t.op,
                          first_transaction(transactions, t.tx)[1].status, 69)
         ELSE /\ thr' = [thr EXCEPT ![s] = [t EXCEPT !.pc = "read_balance"]]
              /\ result' = NoResult

\* a caller calls process_transaction(transaction_id); the call begins with
\* the query of line 61
CallProcessTransaction(s, id) ==
    /\ thr[s].pc = "idle"
    /\ ReadTransaction(s, [IdleThread EXCEPT !.op = "process_transaction",
                                             !.tx = id])
    /\ UNCHANGED <<users, balance, transactions, exchange_service,
                   generation_history, queue, worker, applied, effect, publisher>>

\* the transaction left as it is when the balance row is missing
MarkBalanceNotFound_Skip(rows, id) == rows

\* lines 74-75: the transaction of a user without balance row becomes FAILED
MarkBalanceNotFound(rows, id) == [rows EXCEPT ![id].status = "FAILED"]

\* lines 71-76: load the balance row of the owner; when there is none mark
\* the transaction FAILED, commit and raise 404
ProcessReadBalance(s) ==
    /\ thr[s].pc = "read_balance"
    /\ LET id == thr[s].tx
           u == transactions[id].user
       IN IF u \notin DOMAIN balance
          THEN /\ transactions' = MarkBalanceNotFound(transactions, id)
               /\ ProcessEnds(s, thr[s].op, "HTTP404", 76)
          ELSE /\ thr' = [thr EXCEPT ![s] = [thr[s] EXCEPT !.pc = "settle",
                                                           !.bal = balance[u]]]
               /\ UNCHANGED transactions
               /\ result' = NoResult
    /\ UNCHANGED <<users, balance, exchange_service, generation_history,
                   queue, worker, applied, effect, publisher>>

\* a DEBIT settled without the test of line 85
InsufficientBalance_NoCheck(loaded, amount) == FALSE

\* the DEBIT test of line 85 on the amount the session loaded
InsufficientBalance(loaded, amount) == loaded < amount

\* a CREDIT added to the balance as it is, without the conversion
SettledAmount_Unconverted(loaded, row, rate) ==
    IF row.type = "CREDIT" THEN loaded + row.amount ELSE loaded - row.amount

\* the amount lines 81 and 93 assign to user_balance.amount
SettledAmount(loaded, row, rate) ==
    IF row.type = "CREDIT"
    THEN loaded + convert_rub_to_tokens(row.amount, rate)
    ELSE loaded - row.amount

\* the rows the flush of the session writes at the commit of line 104: the
\* balance row when its amount differs from the loaded one, and the status
CommitDone(id, u, loaded, new) ==
    /\ balance' = IF new = loaded THEN balance ELSE [balance EXCEPT ![u] = new]
    /\ transactions' = [transactions EXCEPT ![id].status = "DONE"]
    /\ applied' = [applied EXCEPT ![id] = IF new = balance[u] THEN @ ELSE @ + 1]
    /\ effect' = [effect EXCEPT ![id] = new - loaded]

StoreOutcomes == {"ok", "commit_error", "refresh_error"}

\* a missing rate treated like a missing balance: the transaction FAILED
RateNotFound_Failed(rows, id) == [rows EXCEPT ![id].status = "FAILED"]

\* exchange_service.py:50-51 and lines 80, 111-112: the 404 of
\* convert_rub_to_tokens passes through process_transaction, which has
\* assigned nothing yet and commits nothing: the rows stay as they are
RateNotFound(rows, id) == rows

\* every type taken for one that line 78 or 84 settles
KnownType_Any(type) == TRUE

\* the tests of lines 78 and 84: the type is CREDIT or DEBIT
KnownType(type) == type \in TransactionType

\* lines 78-120: compute the new amount from the loaded balance, set the
\* status and commit; `store` is what the store does with the commit and
\* with the refreshes after it
ProcessSettle(s, store) ==
    /\ thr[s].pc = "settle"
    /\ LET id == thr[s].tx
           row == transactions[id]
           u == row.user
           loaded == thr[s].bal
       IN
       IF row.type = "CREDIT" /\ exchange_service = << >>
       THEN \* convert_rub_to_tokens raises 404, re-raised at line 112
            /\ store = "ok"
            /\ transactions' = RateNotFound(transactions, id)
            /\ ProcessEnds(s, thr[s].op, "HTTP404", 112)
            /\ UNCHANGED <<balance, applied, effect, publisher>>
       ELSE IF store = "commit_error"
       THEN \* SQLAlchemyError at the commit: rollback, raise 500 (113-116)
            /\ ProcessEnds(s, thr[s].op, "HTTP500", 116)
            /\ UNCHANGED <<balance, transactions, applied, effect, publisher>>
       ELSE IF ~KnownType(row.type)
       THEN \* lines 96-100
            /\ store = "ok"
            /\ transactions' = [transactions EXCEPT ![id].status = "FAILED"]
            /\ ProcessEnds(s, thr[s].op, "HTTP400", 100)
            /\ UNCHANGED <<balance, applied, effect, publisher>>
       ELSE IF row.type = "DEBIT" /\ InsufficientBalance(loaded, row.amount)
       THEN \* lines 85-91
            /\ transactions' = [transactions EXCEPT ![id].status = "FAILED"]
            /\ IF store = "ok" THEN ProcessEnds(s, thr[s].op, "FAILED", 91)
                               ELSE ProcessEnds(s, thr[s].op, "HTTP500", 116)
            /\ UNCHANGED <<balance, applied, effect, publisher>>
       ELSE \* line 81 or 93, then 102-109
            /\ CommitDone(id, u, loaded,
                          SettledAmount(loaded, row,
                              IF row.type = "CREDIT"
                              THEN exchange_service[1].rate ELSE 0))
            /\ IF store = "ok" THEN ProcessEnds(s, thr[s].op, "DONE", 109)
                               ELSE ProcessEnds(s, thr[s].op, "HTTP500", 116)
    /\ UNCHANGED <<users, exchange_service, generation_history, queue, worker,
                   publisher>>

\* ------------------------------------------------------------------------
\* the ledger: users, transactions, settlements and the exchange rate, with
\* the API calls of Threads interleaved
\* ------------------------------------------------------------------------
Next ==
    \/ init_exchange_service
    \/ \E rate \in ValidRateInputs : update_exchange_rate(rate)
    \/ \E u \in UserIds : create_user(u)
    \/ \E u \in UserIds, data \in TransactionInputs :
          create_transaction(u, data.amount, data.type)
    \/ \E s \in Threads, id \in TxIds : CallProcessTransaction(s, id)
    \/ \E s \in Threads : ProcessReadBalance(s)
    \/ \E s \in Threads, store \in StoreOutcomes : ProcessSettle(s, store)

Spec == Init /\ [][Next]_vars

\* ------------------------------------------------------------------------
\* the ledger with one API call at a time, amounts of either sign
\* ------------------------------------------------------------------------
NextSerial ==
    \/ init_exchange_service
    \/ \E rate \in RateInputs : update_exchange_rate(rate)
    \/ \E u \in UserIds : create_user(u)
    \/ \E u \in UserIds, amount \in SerialAmounts, type \in TransactionType :
          create_transaction(u, amount, type)
    \/ \E id \in TxIds : CallProcessTransaction("r1", id)
    \/ ProcessReadBalance("r1")
    \/ \E store \in StoreOutcomes : ProcessSettle("r1", store)

SpecSerial == Init /\ [][NextSerial]_vars

\* ------------------------------------------------------------------------
\* the serial ledger with callers that pass a type which is neither CREDIT
\* nor DEBIT: transaction_type of CreateTransactionSchema is a plain str
\* (schema.py:23) and create_transaction stores what it is given (line 32)
\* ------------------------------------------------------------------------
OtherTypes == {"REFUND"}

NextTyped ==
    \/ NextSerial
    \/ \E u \in UserIds, type \in OtherTypes : create_transaction(u, 60, type)

SpecTyped == Init /\ [][NextTyped]_vars

\* ------------------------------------------------------------------------
\* the serial ledger on a database whose balance table is also written by
\* another client: nothing in models.py ties a users row to a balance row
\* (Balance.user_id is a plain foreign key), so a row can be removed while its
\* user and the user's transactions stay
\* ------------------------------------------------------------------------

\* the balance row of user u is deleted between two API calls
DeleteBalance(u) ==
    /\ \A s \in Threads : thr[s].pc = "idle"
    /\ u \in DOMAIN balance
    /\ balance' = [v \in DOMAIN balance \ {u} |-> balance[v]]
    /\ result' = NoResult
    /\ UNCHANGED <<users, transactions, exchange_service, generation_history,
                   thr, queue, worker, applied, effect, publisher>>

NextOrphan ==
    \/ NextSerial
    \/ \E u \in UserIds : DeleteBalance(u)

SpecOrphan == Init /\ [][NextOrphan]_vars

\* ------------------------------------------------------------------------
\* init_exchange_service run by several application processes at their
\* start, statement by statement, beside the serial ledger
\* ------------------------------------------------------------------------

\* line 37 in process s: the query for an existing record; with a record the
\* call logs and returns (line 49)
InitExchangeCheck(s) ==
    /\ thr[s].pc = "idle"
    /\ IF exchange_service # << >>
       THEN /\ thr' = thr
            /\ result' = [ret |-> "exists", exit |-> 49]
       ELSE /\ thr' = [thr EXCEPT ![s] = [IdleThread EXCEPT
                          !.op = "init_exchange_service", !.pc = "init_insert"]]
            /\ result' = NoResult
    /\ UNCHANGED <<users, balance, transactions, exchange_service,
                   generation_history, queue, worker, applied, effect, publisher>>

\* lines 41-47 in process s: build the record, add it and commit. The test in
\* ExchangeService.__init__ (models.py:57-62) asks object_session(self), which
\* is None for an object not yet added to a session, so it never refuses; the
\* table has no unique column but the uuid key, so the insert is accepted
InitExchangeInsert(s) ==
    /\ thr[s].pc = "init_insert"
    /\ exchange_service' = Append(exchange_service, [rate |-> DEFAULT_RATE])
    /\ thr' = [thr EXCEPT ![s] = IdleThread]
    /\ result' = [ret |-> "initialized", exit |-> 47]
    /\ UNCHANGED <<users, balance, transactions, generation_history, queue,
                   worker, applied, effect, publisher>>

NextExchange ==
    \/ \E s \in Threads : InitExchangeCheck(s)
    \/ \E s \in Threads : InitExchangeInsert(s)
    \/ \E rate \in RateInputs : update_exchange_rate(rate)
    \/ \E u \in UserIds : create_user(u)
    \/ \E u \in UserIds, amount \in SerialAmounts, type \in TransactionType :
          create_transaction(u, amount, type)
    \/ \E id \in TxIds : CallProcessTransaction("r1", id)
    \/ ProcessReadBalance("r1")
    \/ \E store \in StoreOutcomes : ProcessSettle("r1", store)

SpecExchange == Init /\ [][NextExchange]_vars

\* ------------------------------------------------------------------------
\* generation request: the route create_generation and create_prediction
\* ------------------------------------------------------------------------

\* requests that have not yet inserted their generation_history row
PendingRequests ==
    {s \in Threads : thr[s].op = "create_generation" /\ thr[s].pc # "gen_publish"}

\* routes.py:85-89 and tts_service.py:46-51: count the tokens, refuse with 400
\* when the balance is below the cost, else insert the DEBIT transaction of
\* the cost (create_transaction)
CallCreateGeneration(s, u, tokens_spent) ==
    /\ thr[s].pc = "idle"
    /\ u \in users
    /\ u \in DOMAIN balance
    /\ IF balance[u] < tokens_spent
       THEN /\ Finish(s, "HTTP400", 89)
            /\ UNCHANGED transactions
       ELSE /\ Len(transactions) < MaxTx
            /\ Len(generation_history) + Cardinality(PendingRequests) < MaxGen
            /\ transactions' = Append(transactions,
                                      NewTransaction(u, tokens_spent, "DEBIT"))
            /\ thr' = [thr EXCEPT ![s] = [IdleThread EXCEPT
                          !.pc = "read_tx", !.op = "create_generation",
                          !.tx = Len(transactions) + 1, !.user = u,
                          !.cost = tokens_spent]]
            /\ result' = NoResult
    /\ UNCHANGED <<users, balance, exchange_service, generation_history,
                   queue, worker, applied, effect, publisher>>

\* tts_service.py:52: create_prediction calls process_transaction on the
\* transaction it created
CreatePredictionProcess(s) ==
    /\ thr[s].pc = "read_tx"
    /\ ReadTransaction(s, thr[s])
    /\ UNCHANGED <<users, balance, transactions, exchange_service,
                   generation_history, queue, worker, applied, effect, publisher>>

\* a row inserted as already DONE
NewGeneration_Done(t) ==
    [user |-> t.user, text |-> "text", tokens_spent |-> t.cost,
     status |-> "DONE", s3_link |-> "none", debit |-> t.tx,
     debit_result |-> t.ret]

\* the row of tts_service.py:54-62.  debit and debit_result are history
\* fields: the transaction of the request and what process_transaction
\* returned for it
NewGeneration(t) ==
    [user |-> t.user, text |-> "text", tokens_spent |-> t.cost,
     status |-> "PROCESSING", s3_link |-> "none", debit |-> t.tx,
     debit_result |-> t.ret]

\* tts_service.py:54-65: insert the generation_history row and commit; a store
\* error leaves create_prediction and becomes a 500 in the route
CreateGenerationRecord(s, store) ==
    /\ thr[s].pc = "gen_create_record"
    /\ IF store = "ok"
       THEN /\ generation_history' =
                   Append(generation_history, NewGeneration(thr[s]))
            /\ thr' = [thr EXCEPT ![s] = [thr[s] EXCEPT !.pc = "gen_publish",
                                   !.gen = Len(generation_history) + 1]]
            /\ result' = NoResult
       ELSE /\ Finish(s, "HTTP500", 103)
            /\ UNCHANGED generation_history
    /\ UNCHANGED <<users, balance, transactions, exchange_service, queue,
                   worker, applied, effect, publisher>>

\* a task whose dispatch id is the id of the record
GenerationTask_RecordId(gid, row) ==
    [json |-> TRUE, task_id |-> gid, generation_id |-> gid,
     text |-> row.text, user_id |-> row.user,
     tokens_spent |-> row.tokens_spent]

\* the body of the message of the GenerationTask built at tts_service.py:67-72
\* (task.json()): a JSON document with the id of the record, the user, the
\* text and the cost of the request, and the task_id that the default factory
\* of task_model.py:9 draws: a fresh uuid4, written here as the negative of
\* the record's number so that it is a value no record and no other task has
GenerationTask(gid, row) ==
    [json |-> TRUE, task_id |-> 0 - gid, generation_id |-> gid,
     text |-> row.text, user_id |-> row.user,
     tokens_spent |-> row.tokens_spent]

\* what one call of publish_task can do: what it returns and how many times
\* the broker accepted the task during the call (the attempts of
\* TaskPublisher.publish_task below)
PublishOutcomes ==
    {[success |-> TRUE, accepted |-> 1], [success |-> TRUE, accepted |-> 2],
     [success |-> FALSE, accepted |-> 0], [success |-> FALSE, accepted |-> 1]}

\* n copies of the message m
RECURSIVE Copies(_, _)
Copies(m, n) == IF n = 0 THEN << >> ELSE <<m>> \o Copies(m, n - 1)

\* the publish failure is not recorded
MarkPublishFailed_Skip(rows, gid) == rows

\* tts_service.py:81-83 and 87-90: the record of a failed publish is set
\* FAILED and committed
MarkPublishFailed(rows, gid) == [rows EXCEPT ![gid].status = "FAILED"]

\* tts_service.py:74-102: publish the task; when publish_task returns false
\* (or raises) set the row FAILED, commit and raise, which the route turns
\* into a 500 (routes.py:101-103); else return the record
PublishGenerationTask(s, outcome) ==
    /\ thr[s].pc = "gen_publish"
    /\ LET gid == thr[s].gen IN
       /\ queue' = queue \o Copies(GenerationTask(gid, generation_history[gid]),
                                   outcome.accepted)
       /\ IF outcome.success
          THEN /\ Finish(s, generation_history[gid].status, 102)
               /\ UNCHANGED generation_history
          ELSE /\ generation_history' = MarkPublishFailed(generation_history, gid)
               /\ Finish(s, "HTTP500", 103)
    /\ UNCHANGED <<users, balance, transactions, exchange_service, worker,
                   applied, effect, publisher>>

\* ------------------------------------------------------------------------
\* worker: MLWorker.process_message
\* ------------------------------------------------------------------------

\* an update that inserts the row it does not find
update_generation_status_Upsert(rows, generation_id, status, s3_link, store) ==
    IF store = "ok" /\ generation_id \in DOMAIN rows
    THEN [rows EXCEPT ![generation_id].status = status]
    ELSE Append(rows, [user |-> "none", text |-> "none", tokens_spent |-> 0,
                       status |-> status, s3_link |-> s3_link, debit |-> 0,
                       debit_result |-> "none"])

\* MLWorker.update_generation_status: set status (and s3_link when given) of
\* the row when it exists; a store error is logged and swallowed
update_generation_status(rows, generation_id, status, s3_link, store) ==
    IF store = "ok" /\ generation_id \in DOMAIN rows
    THEN [rows EXCEPT ![generation_id].status = status,
                      ![generation_id].s3_link =
                          IF s3_link # "none" THEN s3_link ELSE @]
    ELSE rows

\* worker.py:222: generation_id and text must both be present and non-empty
\* (0 and "" stand for a missing or empty field)
ValidTask(task_data) == task_data.generation_id # 0 /\ task_data.text # ""

PREFETCH_COUNT == 1    \* basic_qos(prefetch_count=1)

\* a broker that pushes messages whatever the consumer still holds
CanDeliver_NoLimit(w) == TRUE

\* worker.py:130: the broker sends the consumer a message only while it
\* holds fewer than prefetch_count unacknowledged ones
CanDeliver(w) == Len(w.unacked) < PREFETCH_COUNT

\* the worker has a consumer on the queue (worker.py:258-264): it is not in
\* the loop of start() or in connect(), and not stopped
Consuming(w) == w.pc \notin {"start", "connect", "stopped"}

\* the broker delivers the next message (prefetch_count=1, worker.py:130)
\* and process_message runs its lines 214-225: a body that is not JSON goes
\* to the handler of line 236, a task without generation_id or text to the
\* rejection of line 224; else the task is processed.  A message delivered
\* while process_message runs waits in the client, unacknowledged
WorkerReceive ==
    /\ Consuming(worker)
    /\ CanDeliver(worker)
    /\ queue # << >>
    /\ worker' = IF worker.pc = "idle"
                 THEN [pc |-> IF ~Head(queue).json THEN "nack"
                              ELSE IF ~ValidTask(Head(queue)) THEN "reject"
                              ELSE "mark_processing",
                       unacked |-> <<Head(queue)>>, attempt |-> 0]
                 ELSE [worker EXCEPT !.unacked = Append(@, Head(queue))]
    /\ queue' = Tail(queue)
    /\ result' = NoResult
    /\ UNCHANGED <<users, balance, transactions, exchange_service,
                   generation_history, thr, applied, effect, publisher>>

\* worker.py:224-225: basic_nack(requeue=False) of an invalid task, then
\* return; when basic_nack raises, the handler of line 240 runs: it marks the
\* record FAILED when the task has a generation_id and rejects again
WorkerReject(nacked) ==
    /\ worker.pc = "reject"
    /\ worker' = IF nacked THEN IdleWorker
                 ELSE IF worker.unacked[1].generation_id # 0
                      THEN [worker EXCEPT !.pc = "mark_failed"]
                      ELSE [worker EXCEPT !.pc = "nack"]
    /\ result' = NoResult
    /\ UNCHANGED <<users, balance, transactions, exchange_service,
                   generation_history, thr, queue, applied, effect, publisher>>

\* worker.py:227
WorkerMarkProcessing(store) ==
    /\ worker.pc = "mark_processing"
    /\ generation_history' = update_generation_status(generation_history,
            worker.unacked[1].generation_id, "PROCESSING", "none", store)
    /\ worker' = [worker EXCEPT !.pc = "generate"]
    /\ result' = NoResult
    /\ UNCHANGED <<users, balance, transactions, exchange_service, thr,
                   queue, applied, effect, publisher>>

\* worker.py:229-231: generate_audio, then the DONE update with the output
\* path; generate_audio raising goes to the handler of line 240
WorkerGenerate(generated, store) ==
    /\ worker.pc = "generate"
    /\ IF generated
       THEN /\ generation_history' = update_generation_status(
                   generation_history, worker.unacked[1].generation_id,
                   "DONE", "output", store)
            /\ worker' = [worker EXCEPT !.pc = "ack"]
       ELSE /\ store = "ok"
            /\ worker' = [worker EXCEPT !.pc = "mark_failed"]
            /\ UNCHANGED generation_history
    /\ result' = NoResult
    /\ UNCHANGED <<users, balance, transactions, exchange_service, thr,
                   queue, applied, effect, publisher>>

\* a handler that also runs after an acknowledgement that went through
AfterAck_Handler(w, acked) == [w EXCEPT !.pc = "mark_failed"]

\* worker.py:233-234 and 240: after basic_ack process_message logs and
\* returns; when basic_ack raises, the handler of line 240 runs
AfterAck(w, acked) ==
    IF acked THEN IdleWorker ELSE [w EXCEPT !.pc = "mark_failed"]

\* worker.py:233: basic_ack; when it raises, the handler of line 240 runs
WorkerAck(acked) ==
    /\ worker.pc = "ack"
    /\ worker' = AfterAck(worker, acked)
    /\ result' = NoResult
    /\ UNCHANGED <<users, balance, transactions, exchange_service,
                   generation_history, thr, queue, applied, effect, publisher>>

\* a handler that gives the tokens of the failed generation back
WorkerMarkFailed_Refund(store) ==
    /\ worker.pc = "mark_failed"
    /\ generation_history' = update_generation_status(generation_history,
            worker.unacked[1].generation_id, "FAILED", "none", store)
    /\ worker' = [worker EXCEPT !.pc = "nack"]
    /\ result' = NoResult
    /\ balance' = [u \in DOMAIN balance |->
                     IF u = worker.unacked[1].user_id
                     THEN balance[u] + worker.unacked[1].tokens_spent
                     ELSE balance[u]]
    /\ UNCHANGED <<users, transactions, exchange_service, thr,
                   queue, applied, effect, publisher>>

\* worker.py:244-245
WorkerMarkFailed(store) ==
    /\ worker.pc = "mark_failed"
    /\ generation_history' = update_generation_status(generation_history,
            worker.unacked[1].generation_id, "FAILED", "none", store)
    /\ worker' = [worker EXCEPT !.pc = "nack"]
    /\ result' = NoResult
    /\ UNCHANGED <<users, balance, transactions, exchange_service, thr,
                   queue, applied, effect, publisher>>

\* worker.py:248: basic_nack(requeue=False) drops the message; when it raises
\* (the connection is gone) the exception leaves process_message and the
\* broker puts the unacknowledged message back on the queue
WorkerNack(nacked) ==
    /\ worker.pc = "nack"
    /\ worker' = IdleWorker
    /\ queue' = IF nacked THEN queue ELSE worker.unacked \o queue
    /\ result' = NoResult
    /\ UNCHANGED <<users, balance, transactions, exchange_service,
                   generation_history, thr, applied, effect, publisher>>

\* ------------------------------------------------------------------------
\* the generation pipeline: concurrent generation requests of the users and
\* the worker consuming the queue
\* ------------------------------------------------------------------------
NextPipeline ==
    \/ \E u \in UserIds : create_user(u)
    \/ \E s \in Threads, u \in UserIds, tokens_spent \in TokenCosts :
          CallCreateGeneration(s, u, tokens_spent)
    \/ \E s \in Threads : CreatePredictionProcess(s)
    \/ \E s \in Threads : ProcessReadBalance(s)
    \/ \E s \in Threads, store \in StoreOutcomes : ProcessSettle(s, store)
    \/ \E s \in Threads, store \in {"ok", "commit_error"} :
          CreateGenerationRecord(s, store)
    \/ \E s \in Threads, outcome \in PublishOutcomes :
          PublishGenerationTask(s, outcome)
    \/ WorkerReceive
    \/ \E store \in {"ok", "commit_error"} : WorkerMarkProcessing(store)
    \/ \E generated \in BOOLEAN, store \in {"ok", "commit_error"} :
          WorkerGenerate(generated, store)
    \/ \E acked \in BOOLEAN : WorkerAck(acked)
    \/ \E store \in {"ok", "commit_error"} : WorkerMarkFailed(store)
    \/ \E nacked \in BOOLEAN : WorkerNack(nacked)

SpecPipeline == Init /\ [][NextPipeline]_vars

\* the steps by which a generation request that has begun goes on
RequestSteps(s) ==
    \/ CreatePredictionProcess(s)
    \/ ProcessReadBalance(s)
    \/ \E store \in StoreOutcomes : ProcessSettle(s, store)
    \/ \E store \in {"ok", "commit_error"} : CreateGenerationRecord(s, store)
    \/ \E outcome \in PublishOutcomes : PublishGenerationTask(s, outcome)

\* the pipeline with every begun request and the running worker scheduled
\* fairly: a request thread that can take a step takes one, and so does the
\* worker (start() consumes for ever)
SpecPipelineFair ==
    /\ SpecPipeline
    /\ \A s \in Threads : WF_vars(RequestSteps(s))
    /\ WF_vars(WorkerReceive)
    /\ WF_vars(\E store \in {"ok", "commit_error"} : WorkerMarkProcessing(store))
    /\ WF_vars(\E generated \in BOOLEAN, store \in {"ok", "commit_error"} :
                  WorkerGenerate(generated, store))
    /\ WF_vars(\E acked \in BOOLEAN : WorkerAck(acked))
    /\ WF_vars(\E store \in {"ok", "commit_error"} : WorkerMarkFailed(store))
    /\ WF_vars(\E nacked \in BOOLEAN : WorkerNack(nacked))

\* ------------------------------------------------------------------------
\* the worker on a queue that also receives messages the API did not build
\* ------------------------------------------------------------------------

\* an id that names no generation_history row
UnknownId == MaxGen + 1

\* bodies put on ml_tasks by another producer: not JSON, no generation_id,
\* empty text for record 1, and a task for a record that does not exist
ForeignMessages ==
    {[json |-> FALSE, generation_id |-> 0, text |-> "",
      user_id |-> "none", tokens_spent |-> 0],
     [json |-> TRUE, generation_id |-> 0, text |-> "text",
      user_id |-> "none", tokens_spent |-> 0],
     [json |-> TRUE, generation_id |-> 1, text |-> "",
      user_id |-> "none", tokens_spent |-> 0],
     [json |-> TRUE, generation_id |-> UnknownId, text |-> "text",
      user_id |-> "none", tokens_spent |-> 0]}

\* a foreign message arrives on the empty queue
DeliverForeign(m) ==
    /\ queue = << >>
    /\ queue' = <<m>>
    /\ result' = NoResult
    /\ UNCHANGED <<users, balance, transactions, exchange_service,
                   generation_history, thr, worker, applied, effect, publisher>>

WorkerSteps ==
    \/ WorkerReceive
    \/ \E nacked \in BOOLEAN : WorkerReject(nacked)
    \/ \E store \in {"ok", "commit_error"} : WorkerMarkProcessing(store)
    \/ \E generated \in BOOLEAN, store \in {"ok", "commit_error"} :
          WorkerGenerate(generated, store)
    \/ \E acked \in BOOLEAN : WorkerAck(acked)
    \/ \E store \in {"ok", "commit_error"} : WorkerMarkFailed(store)
    \/ \E nacked \in BOOLEAN : WorkerNack(nacked)

NextWorker ==
    \/ \E u \in UserIds : create_user(u)
    \/ \E u \in UserIds, tokens_spent \in TokenCosts :
          CallCreateGeneration("r1", u, tokens_spent)
    \/ CreatePredictionProcess("r1")
    \/ ProcessReadBalance("r1")
    \/ \E store \in StoreOutcomes : ProcessSettle("r1", store)
    \/ \E store \in {"ok", "commit_error"} : CreateGenerationRecord("r1", store)
    \/ \E outcome \in PublishOutcomes : PublishGenerationTask("r1", outcome)
    \/ \E m \in ForeignMessages : DeliverForeign(m)
    \/ WorkerSteps

SpecWorker == Init /\ [][NextWorker]_vars

\* ------------------------------------------------------------------------
\* every operation that is not a settlement, beside the generation requests
\* and the worker: the steps among which a balance could change
\* ------------------------------------------------------------------------

\* the foreign messages that are JSON without generation_id
InvalidTasks == {m \in ForeignMessages : m.json /\ m.generation_id = 0}

NextFrame ==
    \/ init_exchange_service
    \/ \E rate \in ValidRateInputs : update_exchange_rate(rate)
    \/ \E u \in UserIds : create_user(u)
    \/ \E u \in UserIds, data \in TransactionInputs :
          create_transaction(u, data.amount, data.type)
    \/ \E id \in TxIds : CallProcessTransaction("r1", id)
    \/ \E u \in UserIds, tokens_spent \in TokenCosts :
          CallCreateGeneration("r1", u, tokens_spent)
    \/ CreatePredictionProcess("r1")
    \/ ProcessReadBalance("r1")
    \/ \E store \in StoreOutcomes : ProcessSettle("r1", store)
    \/ \E store \in {"ok", "commit_error"} : CreateGenerationRecord("r1", store)
    \/ \E outcome \in PublishOutcomes : PublishGenerationTask("r1", outcome)
    \/ \E m \in InvalidTasks : DeliverForeign(m)
    \/ WorkerSteps

SpecFrame == Init /\ [][NextFrame]_vars

\* ------------------------------------------------------------------------
\* the life of the worker process: MLWorker.start, connect and stop
\* ------------------------------------------------------------------------

MAX_RETRIES == 10    \* max_retries of MLWorker.connect

\* what the broker does with the unacknowledged message of a consumer whose
\* connection closed: it is queued again, ahead of the waiting messages
Requeued_Dropped(unacked, q) == q

Requeued(unacked, q) == unacked \o q

\* worker.py:268-272: start_consuming raises while the worker waits for a
\* message (the connection is lost); start() logs, sleeps and loops
ConsumeFails ==
    /\ worker.pc = "idle"
    /\ worker' = [worker EXCEPT !.pc = "start"]
    /\ result' = NoResult
    /\ UNCHANGED <<users, balance, transactions, exchange_service,
                   generation_history, thr, queue, applied, effect, publisher>>

\* worker.py:252-255: the top of the loop of start() with no open
\* connection: connect() is called
WorkerStart ==
    /\ worker.pc = "start"
    /\ worker' = [worker EXCEPT !.pc = "connect", !.attempt = 0]
    /\ result' = NoResult
    /\ UNCHANGED <<users, balance, transactions, exchange_service,
                   generation_history, thr, queue, applied, effect, publisher>>

\* worker.py:90-140, one attempt of connect(): connected, the worker
\* consumes (lines 258-264); a failed attempt before the last sleeps and
\* tries again; the last one re-raises (line 140), which start() catches at
\* line 270: it sleeps and goes to the top of its loop
WorkerConnect(connected) ==
    /\ worker.pc = "connect"
    /\ worker' = IF connected THEN IdleWorker
                 ELSE IF worker.attempt < MAX_RETRIES - 1
                      THEN [worker EXCEPT !.attempt = @ + 1]
                      ELSE [worker EXCEPT !.pc = "start", !.attempt = 0]
    /\ result' = NoResult
    /\ UNCHANGED <<users, balance, transactions, exchange_service,
                   generation_history, thr, queue, applied, effect, publisher>>

\* worker.py:266-269 and 274-283: KeyboardInterrupt reaches start() from
\* wherever the worker is (process_message catches Exception only); stop()
\* stops consuming and closes the connection, the loop ends. No statement
\* acknowledges or rejects the message in work
WorkerStop ==
    /\ worker.pc # "stopped"
    /\ worker' = [pc |-> "stopped", unacked |-> << >>, attempt |-> 0]
    /\ queue' = Requeued(worker.unacked, queue)
    /\ result' = NoResult
    /\ UNCHANGED <<users, balance, transactions, exchange_service,
                   generation_history, thr, applied, effect, publisher>>

NextLifecycle ==
    \/ ConsumeFails
    \/ WorkerStart
    \/ \E connected \in BOOLEAN : WorkerConnect(connected)
    \/ WorkerStop
    \/ NextWorker

SpecLifecycle == Init /\ [][NextLifecycle]_vars

\* ------------------------------------------------------------------------
\* the publisher: publisher_manager.get_publisher and TaskPublisher
\* ------------------------------------------------------------------------

MAX_ATTEMPTS == 3    \* max_attempts of publish_task

\* the tables, the queue of the pipeline and the API threads are not touched
\* by the publisher
PublisherFrame ==
    /\ result' = NoResult
    /\ UNCHANGED <<users, balance, transactions, exchange_service,
                   generation_history, thr, queue, worker, applied, effect>>

\* publish_task returns `ret` to thread s
PublishReturns(p, s, ret) ==
    [p EXCEPT !.call[s].pc = "idle", !.call[s].ret = ret]

\* publisher_manager.py:22: a thread begins a publish; it reads
\* self.publisher and takes it when it is not None
get_publisher(s) ==
    /\ publisher.call[s].pc = "idle"
    /\ publisher' = [publisher EXCEPT !.call[s] =
          IF publisher.manager = 0
          THEN [IdleCall EXCEPT !.pc = "new_publisher"]
          ELSE [IdleCall EXCEPT !.pc = "ensure", !.inst = publisher.manager]]
    /\ PublisherFrame

\* publisher_manager.py:23-24: self.publisher = TaskPublisher()
NewTaskPublisher(s) ==
    /\ publisher.call[s].pc = "new_publisher"
    /\ LET i == Len(publisher.inst) + 1 IN
       publisher' = [publisher EXCEPT
          !.inst = Append(@, [connection |-> 0, channel |-> 0]),
          !.manager = i,
          !.call[s].pc = "ensure", !.call[s].inst = i]
    /\ PublisherFrame

\* the test of publisher.py:24: no connection object, or one that is closed
NeedsConnection(p, i) ==
    p.inst[i].connection = 0 \/ p.inst[i].connection \in p.closed

MAX_CONNECT_RETRIES == 5    \* max_retries of TaskPublisher.connect

\* for how many attempts in a row the broker refuses a connection
Refusals == {0, MAX_CONNECT_RETRIES - 1, MAX_CONNECT_RETRIES}

\* the loop of TaskPublisher.connect (lines 32-81) from its attempt number
\* `attempt` on, against a broker that refuses the first `refused` attempts:
\* True at the first attempt that connects, False after the last one failed
RECURSIVE ConnectLoop(_, _, _)
ConnectLoop(refused, attempt, max_retries) ==
    IF attempt < refused
    THEN IF attempt < max_retries - 1
         THEN ConnectLoop(refused, attempt + 1, max_retries)
         ELSE [ret |-> "false", tries |-> attempt + 1]
    ELSE [ret |-> "true", tries |-> attempt + 1]

\* a connect() with one attempt more
connect_OneMore(refused) == ConnectLoop(refused, 0, MAX_CONNECT_RETRIES + 1)

\* TaskPublisher.connect
connect(refused) == ConnectLoop(refused, 0, MAX_CONNECT_RETRIES)

\* ensure_connection, the whole section under self._lock: connect when there
\* is no open connection; connect() stores the new connection and channel
\* (lines 51-52) or returns False after its retries and stores nothing; its
\* return value is dropped (line 25)
ensure_connection(s, refused) ==
    /\ publisher.call[s].pc = "ensure"
    /\ LET i == publisher.call[s].inst
           c == publisher.opened + 1
           r == connect(refused) IN
       IF ~NeedsConnection(publisher, i)
       THEN /\ refused = 0
            /\ publisher' = [publisher EXCEPT
                  !.call[s].pc = "publish",
                  !.call[s].tries = 0, !.call[s].connect_ret = "none"]
       ELSE IF r.ret = "true"
       THEN /\ publisher.opened < MaxConn
            /\ publisher' = [publisher EXCEPT
                  !.inst[i] = [connection |-> c, channel |-> c],
                  !.opened = c, !.live = @ \cup {c},
                  !.call[s].pc = "publish",
                  !.call[s].tries = r.tries, !.call[s].connect_ret = r.ret]
       ELSE publisher' = [publisher EXCEPT
                  !.call[s].pc = "publish",
                  !.call[s].tries = r.tries, !.call[s].connect_ret = r.ret]
    /\ PublisherFrame

\* handlers that go to the next attempt after every exception
PublishRaises_RetryAll(p, s, err) ==
    LET q == [p EXCEPT !.inst[p.call[s].inst].connection = 0,
                       !.call[s].attempt = @ + 1] IN
    IF q.call[s].attempt < MAX_ATTEMPTS
    THEN [q EXCEPT !.call[s].pc = "ensure"]
    ELSE PublishReturns(q, s, "false")

\* the handlers of publisher.py:115-125 in thread s for an exception of
\* basic_publish: a connection error drops the cached connection (line 117)
\* and goes to the next attempt, or returns False after the last one; any
\* other exception returns False
PublishRaises(p, s, err) ==
    IF err = "StreamLostError"
    THEN LET q == [p EXCEPT !.inst[p.call[s].inst].connection = 0,
                            !.call[s].attempt = @ + 1] IN
         IF q.call[s].attempt < MAX_ATTEMPTS
         THEN [q EXCEPT !.call[s].pc = "ensure"]
         ELSE PublishReturns(q, s, "false")
    ELSE PublishReturns(p, s, "false")

\* the client sees connection c fail: the connection and its channel are
\* closed from then on
SeenClosed(p, c) == [p EXCEPT !.closed = @ \cup {c}]

\* publisher.py:102: basic_publish on self.channel.  No channel: the
\* AttributeError is caught at line 121.  A closed channel: basic_publish
\* refuses with a channel error, caught at line 121.  A channel whose
\* connection is gone unnoticed: the call raises.  Else the frame goes out
\* and the broker takes the message
basic_publish(s, err) ==
    /\ publisher.call[s].pc = "publish"
    /\ LET ch == publisher.inst[publisher.call[s].inst].channel IN
       publisher' =
          IF ch = 0 \/ ch \in publisher.closed
          THEN PublishReturns(publisher, s, "false")
          ELSE IF ch \notin publisher.live
               THEN PublishRaises(SeenClosed(publisher, ch), s, err)
               ELSE [publisher EXCEPT !.call[s].pc = "flush",
                                      !.call[s].ch = ch,
                                      !.call[s].accepted = @ + 1]
    /\ PublisherFrame

\* the broker or the network closes connection c
ConnectionLost(c) ==
    /\ c \in publisher.live
    /\ publisher' = [publisher EXCEPT !.live = @ \ {c}]
    /\ PublisherFrame

\* basic_publish ends: it returns and publish_task returns True (line 113),
\* or it raises StreamLostError because the connection was lost meanwhile
FlushOutput(s) ==
    /\ publisher.call[s].pc = "flush"
    /\ publisher' =
          IF publisher.call[s].ch \in publisher.live
          THEN PublishReturns(publisher, s, "true")
          ELSE PublishRaises(SeenClosed(publisher, publisher.call[s].ch), s,
                             "StreamLostError")
    /\ PublisherFrame

NextPublisher ==
    \/ \E s \in Threads : get_publisher(s)
    \/ \E s \in Threads : NewTaskPublisher(s)
    \/ \E s \in Threads, refused \in Refusals : ensure_connection(s, refused)
    \/ \E s \in Threads, err \in {"StreamLostError", "Exception"} :
          basic_publish(s, err)
    \/ \E c \in 1..MaxConn : ConnectionLost(c)
    \/ \E s \in Threads : FlushOutput(s)

SpecPublisher == Init /\ [][NextPublisher]_vars

\* ------------------------------------------------------------------------
\* properties of the ledger
\* ------------------------------------------------------------------------

\* sum over the first n transactions of the DONE ones of user u: the tokens
\* credited by a CREDIT, minus the amount of a DEBIT
RECURSIVE LedgerSum(_, _)
LedgerSum(u, n) ==
    IF n = 0 THEN 0
    ELSE LedgerSum(u, n - 1) +
         (IF transactions[n].user = u /\ transactions[n].status = "DONE"
          THEN IF transactions[n].type = "CREDIT"
               THEN effect[n] ELSE 0 - transactions[n].amount
          ELSE 0)

\* C1: in every reachable state each balance equals the tokens of the user's
\* DONE CREDIT transactions (the grant included) minus the amounts of the
\* user's DONE DEBIT transactions, and is never negative
C1_BalanceEqualsLedger ==
    \A u \in DOMAIN balance :
        /\ balance[u] = LedgerSum(u, Len(transactions))
        /\ balance[u] >= 0

\* the transactions of user u have valid amounts, and none was applied to
\* the balance twice or applied without being DONE
SettledOnce(u) ==
    \A id \in DOMAIN transactions :
        transactions[id].user = u =>
            /\ transactions[id].amount > 0
            /\ applied[id] <= 1
            /\ transactions[id].status # "DONE" => applied[id] = 0

\* C2: no update is lost when different transactions of one user are settled
\* concurrently: whenever each transaction of the user has been settled at
\* most once, the balance holds the effect of every DONE transaction
C2_NoLostUpdate ==
    \A u \in DOMAIN balance :
        SettledOnce(u) => balance[u] = LedgerSum(u, Len(transactions))

\* C3: over any interleaving of process_transaction calls, the effect of a
\* transaction (of a valid amount) is applied to the balance at most one time
C3_SettlesAtMostOnce ==
    \A id \in DOMAIN transactions :
        transactions[id].amount > 0 => applied[id] <= 1

\* C4: process_transaction on a transaction that is already DONE or FAILED
\* returns that status (line 69) and changes no balance and no transaction,
\* at every such call
C4_SettleIdempotent ==
    [][\A s \in Threads, id \in DOMAIN transactions :
          (CallProcessTransaction(s, id) /\ Terminal(transactions[id].status))
          => /\ result' = [ret |-> transactions[id].status, exit |-> 69]
             /\ thr'[s].pc = "idle"
             /\ balance' = balance
             /\ transactions' = transactions
             /\ applied' = applied]_vars

\* a repeated call on a FAILED transaction has just returned FAILED
C4_Witness == result = [ret |-> "FAILED", exit |-> 69]

\* C5: in every committed state a transaction whose effect has been applied
\* to the balance is DONE
C5_AppliedImpliesDone ==
    \A id \in DOMAIN transactions :
        applied[id] >= 1 => transactions[id].status = "DONE"

\* C6: a transaction is inserted by create_transaction in PROCESSING, its
\* status changes only from PROCESSING to DONE or FAILED, and once it is
\* DONE or FAILED the row never changes again
C6_TransactionLifecycle ==
    [][/\ \A id \in DOMAIN transactions :
            /\ id \in DOMAIN transactions'
            /\ transactions'[id].amount = transactions[id].amount
            /\ transactions'[id].type = transactions[id].type
            /\ Terminal(transactions[id].status)
                 => transactions'[id].status = transactions[id].status
            /\ transactions'[id].status # transactions[id].status
                 => Terminal(transactions'[id].status)
       /\ \A u \in UserIds, data \in TransactionInputs :
            (u \in users /\ create_transaction(u, data.amount, data.type))
            => transactions'[Len(transactions')].status = "PROCESSING"]_vars

\* C7: settling a PROCESSING DEBIT whose amount is above the balance the call
\* read marks it FAILED, leaves the balance as it is and returns FAILED (line
\* 91, no raise); otherwise the stored balance becomes the balance read minus
\* the amount and the transaction DONE; when no other commit changed the row
\* since the read, that is a decrease of the stored balance by the amount
C7_DebitSettlement ==
    [][\A s \in Threads :
          (/\ thr[s].pc = "settle"
           /\ transactions[thr[s].tx].type = "DEBIT"
           /\ transactions[thr[s].tx].status = "PROCESSING"
           /\ thr[s].op = "process_transaction"
           /\ ProcessSettle(s, "ok"))
          => LET id == thr[s].tx
                 row == transactions[id]
             IN IF row.amount > thr[s].bal
                THEN /\ transactions'[id].status = "FAILED"
                     /\ balance' = balance
                     /\ result' = [ret |-> "FAILED", exit |-> 91]
                ELSE /\ transactions'[id].status = "DONE"
                     /\ balance'[row.user] = thr[s].bal - row.amount
                     /\ balance[row.user] = thr[s].bal
                          => balance'[row.user] = balance[row.user] - row.amount
                     /\ result' = [ret |-> "DONE", exit |-> 109]]_vars

\* a DEBIT was refused for insufficient balance and returned FAILED
C7_Witness == result = [ret |-> "FAILED", exit |-> 91]

\* C8: settling a PROCESSING CREDIT of R units while the stored rate is k
\* makes the stored balance the balance read plus R * k and the transaction
\* DONE; when no other commit changed the row since the read, that is an
\* increase of the stored balance by exactly R * k (100 and 300 at 1.2: 460)
C8_CreditSettlement ==
    [][\A s \in Threads :
          (/\ thr[s].pc = "settle"
           /\ transactions[thr[s].tx].type = "CREDIT"
           /\ transactions[thr[s].tx].status = "PROCESSING"
           /\ exchange_service # << >>
           /\ ProcessSettle(s, "ok"))
          => LET id == thr[s].tx
                 row == transactions[id]
                 Rk == (row.amount * exchange_service[1].rate) \div 10
             IN /\ transactions'[id].status = "DONE"
                /\ balance'[row.user] = thr[s].bal + Rk
                /\ balance[row.user] = thr[s].bal
                     => balance'[row.user] = balance[row.user] + Rk
                /\ effect'[id] = Rk
                /\ SettledAmount(100, [row EXCEPT !.amount = 300], 12) = 460]_vars

\* a CREDIT of 60 settled at the rate 2.0 on the initial balance
C8_Witness ==
    \E id \in DOMAIN transactions :
        /\ transactions[id].type = "CREDIT"
        /\ transactions[id].status = "DONE"
        /\ transactions[id].amount = 60
        /\ effect[id] = 120
        /\ balance[transactions[id].user] = INITIAL_BALANCE + 120

\* ------------------------------------------------------------------------
\* properties of the generation pipeline
\* ------------------------------------------------------------------------

\* C9: a generation_history row exists, and a task is published, only for a
\* request whose DEBIT transaction process_transaction settled DONE
C9_RecordOnlyAfterDoneDebit ==
    /\ \A gid \in DOMAIN generation_history :
          generation_history[gid].debit_result = "DONE"
    /\ \A s \in Threads : thr[s].pc = "gen_publish" => thr[s].ret = "DONE"

\* C10: once a generation_history row is DONE or FAILED no step changes
\* its status
C10_GenerationTerminalIsFinal ==
    [][\A gid \in DOMAIN generation_history :
          Terminal(generation_history[gid].status)
          => generation_history'[gid].status = generation_history[gid].status]_vars

C12_PublishFailureReturnsRecord ==
    [][\A s \in Threads, outcome \in PublishOutcomes :
          (~outcome.success /\ PublishGenerationTask(s, outcome))
          => result' = [ret |-> "FAILED", exit |-> 102]]_vars

\* ------------------------------------------------------------------------
\* properties of the worker
\* ------------------------------------------------------------------------

\* the message the worker holds is one of lines 222-225 or 236-238
HoldsInvalid ==
    /\ worker.unacked # << >>
    /\ ~worker.unacked[1].json \/ ~ValidTask(worker.unacked[1])

\* the message the worker holds is a valid task for a record that does not exist
HoldsUnknown ==
    /\ worker.unacked # << >>
    /\ worker.unacked[1].json
    /\ ValidTask(worker.unacked[1])
    /\ worker.unacked[1].generation_id \notin DOMAIN generation_history

\* C15: when the worker acknowledges a message for an existing record, the
\* record is DONE and its result location is stored
C15_AckOnlyWhenDone ==
    [][(/\ worker.pc = "ack"
        /\ worker' = IdleWorker
        /\ worker.unacked[1].generation_id \in DOMAIN generation_history)
       => LET row == generation_history[worker.unacked[1].generation_id] IN
          row.status = "DONE" /\ row.s3_link = "output"]_vars

\* C16: when the worker rejects a valid task of an existing record after
\* generation or persistence failed, the record has been marked FAILED
C16_FailedBeforeReject ==
    (/\ worker.pc = "nack"
     /\ worker.unacked[1].json
     /\ ValidTask(worker.unacked[1])
     /\ worker.unacked[1].generation_id \in DOMAIN generation_history)
    => generation_history[worker.unacked[1].generation_id].status = "FAILED"

\* C17: while the worker handles a message that is not JSON or lacks
\* generation_id or text, it never starts processing or generating and no
\* step of it changes a generation_history row
C17_InvalidMessageDropped ==
    [][(HoldsInvalid /\ worker' # worker)
       => /\ generation_history' = generation_history
          /\ worker'.pc \notin {"mark_processing", "generate", "ack"}]_vars

C19_NoRecordStuck ==
    \A gid \in 1..MaxGen :
        (gid \in DOMAIN generation_history)
        ~> (/\ gid \in DOMAIN generation_history
            /\ Terminal(generation_history[gid].status))

\* ------------------------------------------------------------------------
\* properties of the publisher
\* ------------------------------------------------------------------------

\* C13: the broker accepted the task exactly once in a call of publish_task
\* that returned true, not at all in a call that returned false, and never
\* twice in one call
C13_AcceptedOncePerTrue ==
    \A s \in Threads :
        /\ publisher.call[s].accepted <= 1
        /\ publisher.call[s].pc = "idle" =>
              /\ publisher.call[s].ret = "true" => publisher.call[s].accepted = 1
              /\ publisher.call[s].ret = "false" => publisher.call[s].accepted = 0

\* C14: there is never more than one open broker connection, and an open
\* connection is the one cached by the publisher of publisher_manager
C14_OneConnection ==
    /\ Cardinality(publisher.live) <= 1
    /\ \A c \in publisher.live :
          /\ publisher.manager # 0
          /\ publisher.inst[publisher.manager].connection = c

\* ------------------------------------------------------------------------
\* properties of create_transaction
\* ------------------------------------------------------------------------

C21_PositiveAmounts ==
    \A id \in DOMAIN transactions : transactions[id].amount > 0

\* C22: create_transaction with a user_id that resolves to no user raises an
\* error, inserts no transaction and changes no balance
C22_UnknownUserRejected ==
    [][\A u \in UserIds, amount \in SerialAmounts, type \in TransactionType :
          (u \notin users /\ create_transaction(u, amount, type))
          => /\ result'.ret \in HttpErrors
             /\ transactions' = transactions
             /\ balance' = balance
             /\ users' = users]_vars

\* the call for a user that does not exist has just raised
C22_Witness ==
    /\ result = [ret |-> "HTTP500", exit |-> 51]
    /\ users = {}
    /\ transactions = << >>

\* C23: settling a PROCESSING transaction whose user has no balance row
\* raises the balance-not-found error (404, line 76) and leaves the
\* transaction FAILED; a later call on it returns FAILED without settling,
\* and neither call creates or changes a balance
C23_BalanceNotFoundIsFatal ==
    [][\A s \in Threads :
          /\ (/\ thr[s].pc = "read_balance"
              /\ transactions[thr[s].tx].user \notin DOMAIN balance
              /\ ProcessReadBalance(s))
             => /\ result' = [ret |-> "HTTP404", exit |-> 76]
                /\ transactions'[thr[s].tx].status = "FAILED"
                /\ thr'[s].pc = "idle"
                /\ balance' = balance
          /\ \A id \in DOMAIN transactions :
                (/\ transactions[id].status = "FAILED"
                 /\ transactions[id].user \notin DOMAIN balance
                 /\ CallProcessTransaction(s, id))
                => /\ result' = [ret |-> "FAILED", exit |-> 69]
                   /\ thr'[s].pc = "idle"
                   /\ transactions' = transactions
                   /\ balance' = balance]_vars

\* a settlement has just failed because the owner has no balance row
C23_Witness ==
    /\ result = [ret |-> "HTTP404", exit |-> 76]
    /\ "u1" \in users
    /\ "u1" \notin DOMAIN balance
    /\ \E id \in DOMAIN transactions : /\ transactions[id].user = "u1"
                                        /\ transactions[id].status = "FAILED"

\* C24: create_user commits exactly one balance row of amount 100 and one
\* DONE CREDIT transaction of amount 100 for the new user; a call that fails
\* leaves no user, balance or transaction row behind; every user has a
\* balance row
C24_CreateUserAtomic ==
    /\ [](DOMAIN balance = users)
    /\ [][\A u \in UserIds :
             create_user(u)
             => IF result'.ret = "Exception"
                THEN /\ users' = users
                     /\ balance' = balance
                     /\ transactions' = transactions
                ELSE /\ users' = users \cup {u}
                     /\ balance' = (u :> INITIAL_BALANCE) @@ balance
                     /\ transactions' =
                           Append(transactions, GrantTransaction(u))]_vars

C26_SingleExchangeRecord == Len(exchange_service) <= 1

\* C27: a balance changes only in a settling step of process_transaction and
\* by the grant of create_user; create_transaction, update_exchange_rate,
\* the publish of a task and every step of the worker, the marking of a
\* generation FAILED included, leave every balance as it was
C27_BalanceFrame ==
    [][/\ balance' # balance
          => \/ \E u \in UserIds : create_user(u)
             \/ \E s \in Threads, store \in StoreOutcomes :
                   ProcessSettle(s, store)
       /\ ( \/ \E u \in UserIds, amount \in SerialAmounts,
                  type \in TransactionType : create_transaction(u, amount, type)
            \/ \E rate \in RateInputs : update_exchange_rate(rate)
            \/ \E m \in ForeignMessages : DeliverForeign(m)
            \/ \E s \in Threads, outcome \in PublishOutcomes :
                  PublishGenerationTask(s, outcome)
            \/ WorkerSteps )
          => balance' = balance]_vars

\* the worker has marked FAILED the generation of a settled DEBIT and the
\* balance is still the one the DEBIT left
C27_Witness ==
    /\ worker.pc = "nack"
    /\ worker.unacked[1].generation_id \in DOMAIN generation_history
    /\ generation_history[worker.unacked[1].generation_id].status = "FAILED"
    /\ balance["u1"] = INITIAL_BALANCE - 60
    /\ \E id \in DOMAIN transactions : /\ transactions[id].type = "DEBIT"
                                        /\ transactions[id].status = "DONE"

\* C28: when the broker stays unreachable the worker gives up after 10
\* connection attempts: the tenth failed attempt ends start()
C28_BoundedReconnect ==
    [][(worker.attempt = MAX_RETRIES - 1 /\ WorkerConnect(FALSE))
       => worker'.pc = "stopped"]_vars

\* C29: a shutdown signal stops the worker without acknowledging or
\* rejecting the message in work, which is queued again at the broker for
\* another consumer with its record untouched; a stopped worker takes no
\* message and does nothing more
C29_ShutdownRequeues ==
    [][/\ WorkerStop
          => /\ worker'.pc = "stopped"
             /\ queue' = worker.unacked \o queue
             /\ generation_history' = generation_history
             /\ balance' = balance
       /\ worker.pc = "stopped"
          => /\ worker' = worker
             /\ generation_history' # generation_history
                   => \E s \in Threads : thr[s].pc # "idle"
             /\ Len(queue') >= Len(queue)
             /\ SubSeq(queue', 1, Len(queue)) = queue]_vars

\* the worker was stopped while it generated the audio of a task: the task
\* is first in the queue again and its record is still PROCESSING
C29_Witness ==
    /\ worker.pc = "stopped"
    /\ queue # << >>
    /\ queue[1].generation_id \in DOMAIN generation_history
    /\ generation_history[queue[1].generation_id].status = "PROCESSING"

\* C30: a call of publish_task makes at most 3 attempts; a transport failure
\* drops the cached connection and goes to the next attempt, the third one
\* returns false; any other failure returns false at once; a publish that
\* does not raise returns true at once; the call only ever returns true or
\* false
C30_PublishAttempts ==
    /\ [](\A s \in Threads :
            /\ publisher.call[s].attempt <= MAX_ATTEMPTS
            /\ publisher.call[s].pc # "idle"
                  => publisher.call[s].attempt < MAX_ATTEMPTS
            /\ publisher.call[s].ret \in {"none", "true", "false"})
    /\ [][\A s \in Threads :
             LET c == publisher.call[s]
                 d == publisher'.call[s] IN
             /\ (c.pc \in {"publish", "flush"} /\ d.attempt # c.attempt)
                => /\ d.attempt = c.attempt + 1
                   /\ publisher'.inst[c.inst].connection = 0
                   /\ IF d.attempt < MAX_ATTEMPTS
                      THEN d.pc = "ensure"
                      ELSE d.pc = "idle" /\ d.ret = "false"
             /\ (/\ c.pc = "publish"
                 /\ basic_publish(s, "Exception")
                 /\ d.pc # "flush")
                => /\ d.pc = "idle"
                   /\ d.ret = "false"
                   /\ d.attempt = c.attempt
             /\ (/\ c.pc = "flush"
                 /\ c.ch \in publisher.live
                 /\ FlushOutput(s))
                => /\ d.pc = "idle"
                   /\ d.ret = "true"
                   /\ d.attempt = c.attempt]_vars

\* a call has returned false after its third transport failure
C30_Witness ==
    \E s \in Threads :
        /\ publisher.call[s].pc = "idle"
        /\ publisher.call[s].ret = "false"
        /\ publisher.call[s].attempt = MAX_ATTEMPTS

C32_RateAtSettlement ==
    [][/\ \A s \in Threads :
            (/\ thr[s].pc = "settle"
             /\ transactions[thr[s].tx].type = "CREDIT"
             /\ transactions[thr[s].tx].status = "PROCESSING"
             /\ exchange_service # << >>
             /\ ProcessSettle(s, "ok"))
            => LET id == thr[s].tx
                   row == transactions[id]
               IN /\ effect'[id] = convert_rub_to_tokens(row.amount,
                                        exchange_service[1].rate)
                  /\ balance'[row.user] - thr[s].bal = effect'[id]
                  /\ exchange_service' = exchange_service
       /\ \A rate \in RateInputs :
            update_exchange_rate(rate)
            => /\ balance' = balance
               /\ transactions' = transactions
               /\ effect' = effect]_vars

\* a CREDIT of 60 was settled at the rate 2.0; the rate is 1.2 again and the
\* balance still holds the 120 tokens
C32_Witness ==
    /\ exchange_service # << >>
    /\ exchange_service[1].rate = 12
    /\ \E id \in DOMAIN transactions :
          /\ transactions[id].type = "CREDIT"
          /\ transactions[id].status = "DONE"
          /\ transactions[id].amount = 60
          /\ effect[id] = 120
          /\ balance[transactions[id].user] = INITIAL_BALANCE + 120

\* the messages the broker holds: queued, or delivered and not yet settled
Held == queue \o worker.unacked

\* C33: tasks and generation records map one to one: every task that the
\* request flow handed to the publisher names a record that exists and has
\* the user, the text and the cost of the task, its task_id is not its
\* generation_id, and a record whose task is about to be built is held by one
\* request only and has no task yet
C33_TaskPerRecord ==
    /\ \A i \in DOMAIN Held :
          LET m == Held[i]
          IN /\ m.generation_id \in DOMAIN generation_history
             /\ generation_history[m.generation_id].user = m.user_id
             /\ generation_history[m.generation_id].text = m.text
             /\ generation_history[m.generation_id].tokens_spent = m.tokens_spent
             /\ m.task_id # m.generation_id
    /\ \A s \in Threads :
          thr[s].pc = "gen_publish"
          => /\ thr[s].gen \in DOMAIN generation_history
             /\ \A t \in Threads \ {s} :
                   thr[t].pc = "gen_publish" => thr[t].gen # thr[s].gen
             /\ \A i \in DOMAIN Held : Held[i].generation_id # thr[s].gen

\* the tasks of two records are held by the broker, one for each record
C33_Witness ==
    /\ Len(generation_history) = 2
    /\ \E i, j \in DOMAIN Held :
          /\ Held[i].generation_id = 1
          /\ Held[j].generation_id = 2
          /\ Held[i].task_id # Held[j].task_id

\* C34: the worker holds at most one unacknowledged message: a message is
\* delivered only to a worker that waits with nothing in work, so the next
\* task stays on the queue until the current one was acknowledged or
\* rejected, and one generation runs at a time
C34_OneUnacked ==
    /\ [](Len(worker.unacked) <= 1)
    /\ [](worker.pc \in {"reject", "mark_processing", "generate", "ack",
                         "mark_failed", "nack"}
           <=> Len(worker.unacked) = 1)
    /\ [][WorkerReceive
           => /\ worker.pc = "idle"
              /\ worker.unacked = << >>
              /\ worker'.unacked = <<Head(queue)>>]_vars

\* the worker generates for one task while the next one waits on the queue
C34_Witness ==
    /\ worker.pc = "generate"
    /\ Len(worker.unacked) = 1
    /\ queue # << >>

C36_UnknownTransaction ==
    [][\A s \in Threads, id \in TxIds :
          (id \notin DOMAIN transactions /\ CallProcessTransaction(s, id))
          => /\ result' = [ret |-> "HTTP404", exit |-> 64]
             /\ thr'[s].pc = "idle"
             /\ transactions' = transactions
             /\ balance' = balance
             /\ effect' = effect]_vars

\* the call for an unknown id ended with 404 while a PROCESSING transaction
\* and the balance of its user stand as they were
C36_Witness ==
    /\ result = [ret |-> "HTTP404", exit |-> 64]
    /\ \E id \in DOMAIN transactions :
          /\ transactions[id].status = "PROCESSING"
          /\ transactions[id].amount = 60
          /\ balance[transactions[id].user] = INITIAL_BALANCE

\* process_message ends for the message in work
MessageLeaves == worker.unacked # << >> /\ worker'.unacked = << >>

C38_RecordBeforePublish ==
    /\ [][\A s \in Threads, outcome \in PublishOutcomes :
            PublishGenerationTask(s, outcome)
            => /\ thr[s].gen \in DOMAIN generation_history
               /\ generation_history[thr[s].gen].status = "PROCESSING"]_vars
    /\ [](\A i \in DOMAIN queue :
            queue[i].generation_id \in DOMAIN generation_history)
    /\ [](worker.unacked # << >>
           => worker.unacked[1].generation_id \in DOMAIN generation_history)
    /\ [][WorkerMarkProcessing("ok")
           => generation_history'[worker.unacked[1].generation_id].status
                 = "PROCESSING"]_vars

\* the worker starts on the task of a request whose record it finds in
\* PROCESSING
C38_Witness ==
    /\ worker.pc = "mark_processing"
    /\ worker.unacked[1].generation_id \in DOMAIN generation_history
    /\ generation_history[worker.unacked[1].generation_id].status
          = "PROCESSING"

\* C39: settling a PROCESSING CREDIT while no exchange-rate record exists
\* ends with an error (404), changes no balance and leaves the transaction
\* PROCESSING, so that a settle call made when a rate record exists finds it
\* as it was created and settles it to DONE
C39_NoRateKeepsProcessing ==
    /\ [][\A s \in Threads :
            (/\ thr[s].pc = "settle"
             /\ transactions[thr[s].tx].type = "CREDIT"
             /\ exchange_service = << >>
             /\ ProcessSettle(s, "ok"))
            => /\ result' = [ret |-> "HTTP404", exit |-> 112]
               /\ thr'[s] = IdleThread
               /\ balance' = balance
               /\ transactions' = transactions
               /\ transactions'[thr[s].tx].status = "PROCESSING"
               /\ effect' = effect
               /\ applied' = applied]_vars
    /\ [][\A s \in Threads :
            (/\ thr[s].pc = "settle"
             /\ transactions[thr[s].tx].type = "CREDIT"
             /\ exchange_service # << >>
             /\ ProcessSettle(s, "ok"))
            => transactions'[thr[s].tx].status = "DONE"]_vars

\* the settle of a CREDIT of 60 ended with 404 for want of a rate record:
\* the transaction is PROCESSING and the balance is the initial one
C39_Witness ==
    /\ result = [ret |-> "HTTP404", exit |-> 112]
    /\ exchange_service = << >>
    /\ \E id \in DOMAIN transactions :
          /\ transactions[id].type = "CREDIT"
          /\ transactions[id].amount = 60
          /\ transactions[id].status = "PROCESSING"
          /\ balance[transactions[id].user] = INITIAL_BALANCE

\* the tokens_spent of the first n generation records, those of user u added up
RECURSIVE RecordTokens(_, _)
RecordTokens(u, n) ==
    IF n = 0 THEN 0
    ELSE RecordTokens(u, n - 1) +
         (IF generation_history[n].user = u
          THEN generation_history[n].tokens_spent ELSE 0)

\* C40: every generation record belongs to a request that created one DEBIT
\* transaction of the record's tokens_spent and settled it before the record
\* was inserted, and that settlement took the tokens from the balance of the
\* user once: the DEBIT is DONE with an effect of minus tokens_spent, no two
\* records share a DEBIT, and the balance is at most the grant less the
\* tokens of all records of the user
C40_RecordDebitedOnce ==
    /\ \A gid \in DOMAIN generation_history :
          LET r == generation_history[gid]
          IN /\ r.debit \in DOMAIN transactions
             /\ transactions[r.debit].type = "DEBIT"
             /\ transactions[r.debit].amount = r.tokens_spent
             /\ transactions[r.debit].user = r.user
             /\ transactions[r.debit].status = "DONE"
             /\ effect[r.debit] = 0 - r.tokens_spent
             /\ applied[r.debit] = 1
    /\ \A g, h \in DOMAIN generation_history :
          g # h => generation_history[g].debit # generation_history[h].debit
    /\ \A u \in DOMAIN balance :
          balance[u] <= INITIAL_BALANCE
                           - RecordTokens(u, Len(generation_history))

====
